---- MODULE Spec2Model ----
(***************************************************************************)
(* A model of taskcat/_cfn_logutils.py (class CfnLogTools):                *)
(*   get_cfn_stack_events  the paginated describe-stack-events loop        *)
(*   get_cfnlogs           the projection of raw events to report rows     *)
(*   write_logs            the report writer and its recursive walk        *)
(*   createcfnlogs         the batch driver                                *)
(* Python dicts are functions whose DOMAIN is the set of keys, lists are   *)
(* sequences, and an exception is a value that travels up the call stack.  *)
(***************************************************************************)
EXTENDS Integers, Sequences, FiniteSets, TLC

\* ------------------------------------------------------------- bounds
\* Most describe_stack_events responses one stack's history is split in.
MaxPages == 3
\* Most events in one response.
MaxPageLen == 2
\* Stacks in the nested-stack tree of the provider.
NStacks == 3
\* Most (test, stack) pairs in one batch.
MaxBatch == 2

VARIABLES
    script,         \* SpecFetch: what the provider answers to the 1st, 2nd, ... call
    fetched,        \* SpecFetch: the outcome of get_cfn_stack_events
    testdata_list,  \* createcfnlogs' argument: per test, its stacks' StackIds
    parent,         \* the provider's nested-stack tree: parent[n], n in 2..NStacks
    deep,           \* whether get_resources lists nested stacks of all depths
    odd,            \* the stack whose event history is not the usual one, or 0
    oddScript,      \* that stack's describe_stack_events answers
    pc,             \* createcfnlogs: "iter", "done" or "raised"
    k,              \* createcfnlogs: (test, stack) pairs already handed to write_logs
    frames,         \* the write_logs activations in progress, innermost last
    raised,         \* the exception in flight, [kind |-> "None"] when there is none
    files,          \* the file system: path -> lines written
    log,            \* the records handed to LOG
    calls,          \* history: every write_logs invocation, in order
    queries         \* history: every get_resources query, in order

vars == <<script, fetched, testdata_list, parent, deep, odd, oddScript, pc, k,
          frames, raised, files, log, calls, queries>>

fetchVars == <<script, fetched>>
walkVars == <<testdata_list, parent, deep, odd, oddScript, pc, k, frames, raised,
              files, log, calls, queries>>

\* ------------------------------------------------------------- helpers
RECURSIVE SeqsUpTo(_, _)
\* All sequences over S of length at most n.
SeqsUpTo(S, n) ==
    IF n = 0 THEN {<<>>}
    ELSE LET shorter == SeqsUpTo(S, n - 1)
         IN  shorter \cup {Append(s, x) : s \in shorter, x \in S}

RECURSIVE Concat(_)
\* The concatenation of a sequence of sequences.
Concat(ss) == IF ss = <<>> THEN <<>> ELSE Head(ss) \o Concat(Tail(ss))

IsPrefix(s, t) == Len(s) <= Len(t) /\ SubSeq(t, 1, Len(s)) = s

NoError == [kind |-> "None"]

\* ------------------------------------------------------------- raw events
\* A StackEvents entry of the provider. ResourceStatusReason is optional.
RawEvent(ts, status) ==
    [Timestamp |-> ts, ResourceStatus |-> status,
     ResourceType |-> "AWS::CloudFormation::Stack", LogicalResourceId |-> "stack"]

WithReason(event, text) == event @@ ("ResourceStatusReason" :> text)

EvComplete == RawEvent(1, "CREATE_COMPLETE")
EvFailedX == WithReason(RawEvent(2, "CREATE_FAILED"), "Resource X failed")
EvFailedBare == RawEvent(3, "CREATE_FAILED")
EvFailedOdd == WithReason(RawEvent(4, "CREATE_FAILED"), "Stack launch was successful")

\* ------------------------------------------------------------- the provider API
\* One scripted answer: a page of events, with or without more to come, or a failure.
\* ClientError is botocore's error for an error response of the service (missing
\* stack, access denied, throttling); EndpointConnectionError is one of botocore's
\* errors that are not a ClientError.
Page(events, more) == [StackEvents |-> events, more |-> more]
Failure(kind) == [Error |-> kind]
IsFailure(answer) == "Error" \in DOMAIN answer
Terminates(answer) == IF IsFailure(answer) THEN TRUE ELSE ~answer.more

\* describe_stack_events, the nth call of one fetch, with the keyword arguments
\* kwargs: the scripted answer, the response carrying the token n when more is to
\* come. A call with a token that is not the previous response's, or beyond the
\* script, is refused with a ClientError.
describe_stack_events(answers, n, kwargs) ==
    LET expected == IF n = 1 THEN {"StackName"} ELSE {"StackName", "NextToken"}
        tokenOk == n = 1 \/ kwargs.NextToken = n - 1
    IN  IF n > Len(answers) \/ DOMAIN kwargs # expected \/ ~tokenOk
            THEN Failure("ClientError")
        ELSE IF IsFailure(answers[n]) THEN answers[n]
        ELSE IF answers[n].more
            THEN [StackEvents |-> answers[n].StackEvents, NextToken |-> n]
        ELSE [StackEvents |-> answers[n].StackEvents]

\* ------------------------------------------------------------- get_cfn_stack_events
\* Fault variant of FetchExcept: the handler returns an empty list instead of
\* the events accumulated before the failure.
FetchExcept_Discard(error, stack_events, requests) ==
    IF error.Error = "ClientError"
        THEN [stack_events |-> <<>>, raised |-> NoError,
              errors |-> 1, requests |-> requests]
    ELSE [stack_events |-> <<>>, raised |-> [kind |-> error.Error],
          errors |-> 0, requests |-> requests]

\* The except clause of get_cfn_stack_events: a ClientError is logged and the
\* events accumulated so far are returned; any other exception leaves the function.
FetchExcept(error, stack_events, requests) ==
    IF error.Error = "ClientError"
        THEN [stack_events |-> stack_events, raised |-> NoError,
              errors |-> 1, requests |-> requests]
    ELSE [stack_events |-> <<>>, raised |-> [kind |-> error.Error],
          errors |-> 0, requests |-> requests]

RECURSIVE FetchLoop(_, _, _, _, _)
\* The while loop: as long as the last response carries NextToken, call again
\* with it and extend the accumulator.
FetchLoop(answers, stackname, response, stack_events, requests) ==
    IF "NextToken" \in DOMAIN response
        THEN LET kwargs == [NextToken |-> response.NextToken, StackName |-> stackname]
                 next == describe_stack_events(answers, Len(requests) + 1, kwargs)
                 sent == Append(requests, kwargs)
             IN  IF IsFailure(next) THEN FetchExcept(next, stack_events, sent)
                 ELSE FetchLoop(answers, stackname, next,
                                stack_events \o next.StackEvents, sent)
    ELSE [stack_events |-> stack_events, raised |-> NoError,
          errors |-> 0, requests |-> requests]

\* Fault variant of get_cfn_stack_events: the first response's events are not
\* added to the accumulator.
get_cfn_stack_events_SkipFirst(answers, stackname) ==
    LET kwargs == [StackName |-> stackname]
        first == describe_stack_events(answers, 1, kwargs)
    IN  IF IsFailure(first) THEN FetchExcept(first, <<>>, <<kwargs>>)
        ELSE FetchLoop(answers, stackname, first, <<>>, <<kwargs>>)

\* get_cfn_stack_events(stackname, region) against a provider that answers with
\* `answers`: the events returned, the exception that left the function, the
\* number of LOG.error records and the requests issued.
get_cfn_stack_events(answers, stackname) ==
    LET kwargs == [StackName |-> stackname]
        first == describe_stack_events(answers, 1, kwargs)
    IN  IF IsFailure(first) THEN FetchExcept(first, <<>>, <<kwargs>>)
        ELSE FetchLoop(answers, stackname, first, first.StackEvents, <<kwargs>>)

\* ------------------------------------------------------------- get_cfnlogs
\* The reporting row of one raw event: four fields copied, and
\* ResourceStatusReason copied or, when the raw event has none, "".
EventDetails(event) ==
    [TimeStamp |-> event.Timestamp, ResourceStatus |-> event.ResourceStatus,
     ResourceType |-> event.ResourceType,
     LogicalResourceId |-> event.LogicalResourceId,
     ResourceStatusReason |->
        IF "ResourceStatusReason" \in DOMAIN event
            THEN event.ResourceStatusReason ELSE ""]

FetchErrorRecord(stackname, region) ==
    [level |-> "ERROR", nametag |-> "None", what |-> "describe failed",
     StackName |-> stackname, Region |-> region]

\* get_cfnlogs(stackname, region) against a provider that answers with `answers`:
\* the rows, the records logged, the exception that left the function, and (for
\* the properties) the raw events the rows were made from.
get_cfnlogs(answers, stackname, region) ==
    LET got == get_cfn_stack_events(answers, stackname)
        stack_events == got.stack_events
    IN  [events |-> [i \in 1..Len(stack_events) |-> EventDetails(stack_events[i])],
         raw |-> stack_events,
         raised |-> got.raised,
         log |-> <<[level |-> "INFO", nametag |-> "None", what |-> "collecting",
                    StackName |-> stackname]>>
                 \o [i \in 1..got.errors |-> FetchErrorRecord(stackname, region)]]

\* ------------------------------------------------------------- collaborators
Nodes == 1..NStacks
Regions == {"us-east-1", "us-west-2"}

\* A stack identifier: the name, the region and what else the ARN carries
\* (the account and the unique suffix).
StackId(name, region, uuid) == [stack_name |-> name, region |-> region, uuid |-> uuid]

\* CommonTools(stack_id).parse_stack_info(): the name and the region of an
\* identifier; an identifier that is no stack's yields no name.
parse_stack_info(stack_id) ==
    IF "stack_name" \in DOMAIN stack_id
        THEN [stack_name |-> stack_id.stack_name, region |-> stack_id.region]
    ELSE [stack_name |-> 0, region |-> "Not-found"]

StackResource(child, region) ==
    [resourceType |-> "AWS::CloudFormation::Stack",
     physicalId |-> StackId(child, region, 1), logicalId |-> child]

BucketResource(stackname) ==
    [resourceType |-> "AWS::S3::Bucket",
     physicalId |-> [bucket |-> stackname], logicalId |-> 0]

RECURSIVE ChildrenFrom(_, _, _)
\* The nested stacks of stack n that are numbered c or more, as resources.
ChildrenFrom(n, c, region) ==
    IF c > NStacks THEN <<>>
    ELSE (IF parent[c] = n THEN <<StackResource(c, region)>> ELSE <<>>)
         \o ChildrenFrom(n, c + 1, region)

\* The resources of stack n itself: its nested stacks and one bucket, the bucket
\* listed after the first nested stack.
DirectResources(n, region) ==
    LET nested == ChildrenFrom(n, 2, region)
    IN  IF n \notin Nodes THEN <<>>
        ELSE IF nested = <<>> THEN <<BucketResource(n)>>
        ELSE <<Head(nested), BucketResource(n)>> \o Tail(nested)

RECURSIVE AllResources(_, _)
\* The resources of stack n and, after each nested stack, those of that stack.
AllResources(n, region) ==
    LET own == DirectResources(n, region)
    IN  Concat([i \in 1..Len(own) |->
            <<own[i]>> \o
            (IF own[i].resourceType = "AWS::CloudFormation::Stack"
                THEN AllResources(own[i].physicalId.stack_name, region) ELSE <<>>)])

\* CfnResourceTools.get_resources(stackname, region, include_stacks=True).
get_resources(stackname, region) ==
    IF deep THEN AllResources(stackname, region) ELSE DirectResources(stackname, region)

\* What the provider answers about a stack's events: one CREATE_COMPLETE event,
\* except for the stack `odd`; a name that is no stack's is refused.
UsualScript == <<Page(<<EvComplete>>, FALSE)>>
AnswersFor(stackname) ==
    IF stackname \notin Nodes THEN <<Failure("ClientError")>>
    ELSE IF stackname = odd THEN oddScript
    ELSE UsualScript

\* ------------------------------------------------------------- write_logs
\* textwrap.fill(text, width): the text re-wrapped, kept apart from the text.
textwrap_fill(text, width) == [fill |-> text, width |-> width]

\* tabulate.tabulate(rows, headers="keys").
tabulate(rows) ==
    [headers |-> <<"TimeStamp", "ResourceStatus", "ResourceType",
                   "LogicalResourceId", "ResourceStatusReason">>,
     rows |-> rows]

\* The outcome reason of a non-empty list of rows.
OutcomeReason(cfnlogs) ==
    IF cfnlogs[1].ResourceStatus # "CREATE_COMPLETE"
        THEN IF "ResourceStatusReason" \in DOMAIN cfnlogs[1]
                THEN cfnlogs[1].ResourceStatusReason
             ELSE "Unknown"
    ELSE "Stack launch was successful"

\* The console outcome record: LOG.info tagged PASS, or LOG.error.
OutcomeRecord(stackname, region, logpath, reason) ==
    LET msg == [StackName |-> stackname, Region |-> region, LoggingTo |-> logpath,
                ResourceStatusReason |-> textwrap_fill(reason, 85)]
    IN  IF reason = "Stack launch was successful"
            THEN [level |-> "INFO", nametag |-> "PASS", what |-> "outcome", msg |-> msg]
        ELSE [level |-> "ERROR", nametag |-> "None", what |-> "outcome", msg |-> msg]

GeneratingRecord ==
    [level |-> "WARNING", nametag |-> "NAMETAG", what |-> "generating reports"]

NoEventsRecord ==
    [level |-> "ERROR", nametag |-> "None", what |-> "no event logs found"]

\* The lines one stack's report adds to the file.
ReportBlock(stackname, region, reason, cfnlogs) ==
    <<[line |-> "rule"],
      [line |-> "Region", text |-> region],
      [line |-> "StackName", text |-> stackname],
      [line |-> "stars"],
      [line |-> "ResourceStatusReason", text |-> textwrap_fill(reason, 85)],
      [line |-> "stars"],
      [line |-> "Events", text |-> tabulate(cfnlogs)],
      [line |-> "stars"],
      [line |-> "Tested on"],
      [line |-> "rule"]>>

\* open(path, "a") and the writes: the file is created when absent.
AppendTo(fs, path, lines) ==
    IF path \in DOMAIN fs THEN [fs EXCEPT ![path] = @ \o lines]
    ELSE fs @@ (path :> lines)

\* Fault variant of IsNestedStack: the loop recurses into every resource.
IsNestedStack_Any(resource) == "resourceType" \in DOMAIN resource

\* The test of the loop over the resources.
IsNestedStack(resource) == resource.resourceType = "AWS::CloudFormation::Stack"

\* Fault variant of NoEvents: the file is opened for appending before the list
\* of rows is tested, which creates it.
NoEvents_Open(stk, logpath, got) ==
    /\ log' = log \o got.log \o <<NoEventsRecord>>
    /\ frames' = stk
    /\ files' = AppendTo(files, logpath, <<>>)
    /\ UNCHANGED <<raised, queries>>

\* The else branch of write_logs: the list of rows is empty.
NoEvents(stk, logpath, got) ==
    /\ log' = log \o got.log \o <<NoEventsRecord>>
    /\ frames' = stk
    /\ UNCHANGED <<files, raised, queries>>

\* The then branch up to the loop: the outcome, the console record, the block
\* appended to the file and the resource query; the query's failure leaves
\* write_logs as an exception.
Report(stk, id, top, stack_id, logpath, stackname, region, got) ==
    LET cfnlogs == got.events
        reason == OutcomeReason(cfnlogs)
    IN  /\ log' = log \o got.log
                  \o <<OutcomeRecord(stackname, region, logpath, reason),
                       GeneratingRecord>>
        /\ files' = AppendTo(files, logpath,
                             ReportBlock(stackname, region, reason, cfnlogs))
        /\ queries' = Append(queries, [call |-> id, stackname |-> stackname,
                                       region |-> region, include_stacks |-> TRUE])
        /\ \E fails \in BOOLEAN :
            IF fails
                THEN /\ raised' = [kind |-> "ResourceError", call |-> id]
                     /\ frames' = stk
            ELSE /\ raised' = raised
                 /\ frames' = Append(stk,
                        [call |-> id, top |-> top, stack_id |-> stack_id,
                         logpath |-> logpath,
                         resources |-> get_resources(stackname, region), i |-> 1])

\* write_logs(stack_id, logpath) called with the activations stk in progress,
\* by the activation `caller` (0: createcfnlogs) within the top-level call `top`.
write_logs(stk, top, caller, stack_id, logpath) ==
    LET stackinfo == parse_stack_info(stack_id)
        stackname == stackinfo.stack_name
        region == stackinfo.region
        got == get_cfnlogs(AnswersFor(stackname), stackname, region)
        id == Len(calls) + 1
    IN  /\ calls' = Append(calls,
                [id |-> id, top |-> top, caller |-> caller, depth |-> Len(stk),
                 stack_id |-> stack_id, logpath |-> logpath, raw |-> got.raw,
                 before |-> IF logpath \in DOMAIN files THEN Len(files[logpath]) ELSE 0])
        /\ IF got.raised # NoError
              THEN /\ raised' = got.raised
                   /\ log' = log \o got.log
                   /\ frames' = stk
                   /\ UNCHANGED <<files, queries>>
           ELSE IF got.events = <<>> THEN NoEvents(stk, logpath, got)
           ELSE Report(stk, id, top, stack_id, logpath, stackname, region, got)

\* One turn of the loop over the resources of the innermost activation: the
\* recursive call for a nested stack.
Recurse ==
    /\ frames # <<>> /\ raised = NoError
    /\ LET f == frames[Len(frames)]
           stk == [frames EXCEPT ![Len(frames)].i = f.i + 1]
       IN  /\ f.i <= Len(f.resources)
           /\ IsNestedStack(f.resources[f.i])
           /\ write_logs(stk, f.top, f.call, f.resources[f.i].physicalId, f.logpath)
    /\ UNCHANGED <<fetchVars, testdata_list, parent, deep, odd, oddScript, pc, k>>

\* One turn of the loop for a resource that is no nested stack.
Skip ==
    /\ frames # <<>> /\ raised = NoError
    /\ LET f == frames[Len(frames)]
       IN  /\ f.i <= Len(f.resources)
           /\ ~IsNestedStack(f.resources[f.i])
           /\ frames' = [frames EXCEPT ![Len(frames)].i = f.i + 1]
    /\ UNCHANGED <<fetchVars, testdata_list, parent, deep, odd, oddScript, pc, k,
                   raised, files, log, calls, queries>>

\* The loop is over: the innermost activation returns.
Return ==
    /\ frames # <<>> /\ raised = NoError
    /\ frames[Len(frames)].i > Len(frames[Len(frames)].resources)
    /\ frames' = SubSeq(frames, 1, Len(frames) - 1)
    /\ UNCHANGED <<fetchVars, testdata_list, parent, deep, odd, oddScript, pc, k,
                   raised, files, log, calls, queries>>

\* Fault variant of Propagate: the loop over the resources handles the exception
\* and goes on with the next resource.
Propagate_Handle ==
    /\ raised # NoError /\ pc = "iter"
    /\ raised' = NoError
    /\ UNCHANGED <<fetchVars, testdata_list, parent, deep, odd, oddScript, pc, k,
                   frames, files, log, calls, queries>>

\* No handler in write_logs nor in createcfnlogs: an exception leaves the
\* innermost activation, and after the outermost one createcfnlogs itself.
Propagate ==
    /\ raised # NoError /\ pc = "iter"
    /\ IF frames # <<>>
          THEN frames' = SubSeq(frames, 1, Len(frames) - 1) /\ pc' = pc
       ELSE frames' = frames /\ pc' = "raised"
    /\ UNCHANGED <<fetchVars, testdata_list, parent, deep, odd, oddScript, k,
                   raised, files, log, calls, queries>>

\* ------------------------------------------------------------- createcfnlogs
\* Fault variant of test_logpath: the region is left out of the file name.
test_logpath_NoRegion(logpath, stackname, region) ==
    <<logpath, "/", stackname, "-", "cfnlogs", ".txt">>

\* The path of one stack's file.
test_logpath(logpath, stackname, region) ==
    <<logpath, "/", stackname, "-", region, "-", "cfnlogs", ".txt">>

\* The (test, stack) pairs in the order of the two nested loops.
Pairs == Concat(testdata_list)

LogDir == "logs"

Begin ==
    /\ pc = "start"
    /\ pc' = "iter"
    /\ log' = Append(log, [level |-> "INFO", nametag |-> "None",
                           what |-> "Collecting CloudFormation Logs"])
    /\ UNCHANGED <<fetchVars, testdata_list, parent, deep, odd, oddScript, k,
                   frames, raised, files, calls, queries>>

\* The body of the loops for the next pair.
NextStack ==
    /\ pc = "iter" /\ frames = <<>> /\ raised = NoError
    /\ k < Len(Pairs)
    /\ LET stack == Pairs[k + 1]
           stackinfo == parse_stack_info(stack.StackId)
       IN  write_logs(<<>>, k + 1, 0, stack.StackId,
                      test_logpath(LogDir, stackinfo.stack_name, stackinfo.region))
    /\ k' = k + 1
    /\ UNCHANGED <<fetchVars, testdata_list, parent, deep, odd, oddScript, pc>>

\* The loops are over.
Finish ==
    /\ pc = "iter" /\ frames = <<>> /\ raised = NoError
    /\ k = Len(Pairs)
    /\ pc' = "done"
    /\ UNCHANGED <<fetchVars, testdata_list, parent, deep, odd, oddScript, k,
                   frames, raised, files, log, calls, queries>>

\* ------------------------------------------------------------- specifications
\* The event histories a stack other than the usual one may have.
OddScripts ==
    {<<Page(<<EvFailedX>>, FALSE)>>,
     <<Page(<<EvFailedBare>>, FALSE)>>,
     <<Page(<<EvFailedOdd>>, FALSE)>>,
     <<Page(<<EvFailedX>>, TRUE), Page(<<EvComplete>>, FALSE)>>,
     <<Page(<<>>, FALSE)>>,
     <<Failure("ClientError")>>,
     <<Failure("EndpointConnectionError")>>}

\* The top-level stacks of a batch: the root of the tree, deployed in either
\* region, and a second identifier with the same name and region.
TopIds ==
    {StackId(1, "us-east-1", 1), StackId(1, "us-east-1", 2), StackId(1, "us-west-2", 1)}

\* A batch as tests: the first stack in one test, a test without stacks, and the
\* other stacks in a third.
Tests(flat) ==
    IF flat = <<>> THEN <<<<>>, <<>>>>
    ELSE <<<<Head(flat)>>, <<>>, Tail(flat)>>

Trees == {p \in [2..NStacks -> Nodes] : \A n \in 2..NStacks : p[n] < n}

IdleFetch == [pc |-> "idle"]

Init ==
    /\ script = <<>>
    /\ fetched = IdleFetch
    /\ \E flat \in SeqsUpTo({[StackId |-> id] : id \in TopIds}, MaxBatch) :
          testdata_list = Tests(flat)
    /\ parent \in Trees
    /\ deep \in BOOLEAN
    /\ odd \in 0..NStacks
    /\ oddScript \in IF odd = 0 THEN {UsualScript} ELSE OddScripts
    /\ pc = "start"
    /\ k = 0
    /\ frames = <<>>
    /\ raised = NoError
    /\ files = <<>>
    /\ log = <<>>
    /\ calls = <<>>
    /\ queries = <<>>

Next == Begin \/ NextStack \/ Recurse \/ Skip \/ Return \/ Propagate \/ Finish

Spec == Init /\ [][Next]_vars

\* get_cfn_stack_events alone, against every scripted provider.
FetchEvents == {EvComplete, EvFailedX}

Answers ==
    {Page(events, more) : events \in SeqsUpTo(FetchEvents, MaxPageLen), more \in BOOLEAN}
    \cup {Failure("ClientError"), Failure("EndpointConnectionError")}

InitFetch ==
    /\ \E n \in 1..MaxPages :
          /\ script \in [1..n -> Answers]
          /\ Terminates(script[n])
    /\ fetched = IdleFetch
    /\ testdata_list = <<>>
    /\ parent = <<>>
    /\ deep = FALSE
    /\ odd = 0
    /\ oddScript = UsualScript
    /\ pc = "done"
    /\ k = 0
    /\ frames = <<>>
    /\ raised = NoError
    /\ files = <<>>
    /\ log = <<>>
    /\ calls = <<>>
    /\ queries = <<>>

Fetch ==
    /\ fetched = IdleFetch
    /\ fetched' = [pc |-> "done", result |-> get_cfn_stack_events(script, 1)]
    /\ UNCHANGED <<script, walkVars>>

NextFetch == Fetch

SpecFetch == InitFetch /\ [][NextFetch]_vars

\* ------------------------------------------------------------- properties
\* The first answer of a script that ends the fetch: a failure, or a page
\* without more to come.
LastCall(s) ==
    CHOOSE n \in 1..Len(s) :
        Terminates(s[n]) /\ \A m \in 1..(n - 1) : ~Terminates(s[m])

\* The events of the first n pages of a script, in page order.
PagesUpTo(s, n) == Concat([i \in 1..n |-> s[i].StackEvents])

\* The requests of a fetch of n calls: the first without a token, each later
\* one with the token of the response before it.
RequestsUpTo(stackname, n) ==
    [i \in 1..n |-> IF i = 1 THEN [StackName |-> stackname]
                    ELSE [NextToken |-> i - 1, StackName |-> stackname]]

\* C1: when no call fails, get_cfn_stack_events returns the events of pages 1..N
\* in page order and in-page order, with exactly N requests, the first without
\* a token and each later one with the previous response's token, N being the
\* first response without a token.
C1_Pagination ==
    (fetched.pc = "done" /\ ~IsFailure(script[LastCall(script)])) =>
        /\ fetched.result.stack_events = PagesUpTo(script, LastCall(script))
        /\ fetched.result.requests = RequestsUpTo(1, LastCall(script))
        /\ fetched.result.raised = NoError
        /\ fetched.result.errors = 0

C1_Witness ==
    /\ fetched.pc = "done"
    /\ Len(script) = 3 /\ LastCall(script) = 2
    /\ ~IsFailure(script[2])
    /\ Len(script[1].StackEvents) = 2
    /\ script[1].StackEvents[1] # script[1].StackEvents[2]
    /\ script[2].StackEvents # <<>>
    /\ script[2].StackEvents # script[1].StackEvents

Reported(c) == c.raw # <<>>

\* Lines in one block.
BlockLen == Len(ReportBlock(0, "", "", <<>>))

\* The block an invocation wrote: the lines of its file from where the file
\* ended when it was called.
BlockOf(c) == SubSeq(files[c.logpath], c.before + 1, c.before + BlockLen)

\* The stack names of the blocks in a sequence of lines, block by block.
BlockNames(lines) ==
    [j \in 1..(Len(lines) \div BlockLen) |-> lines[(j - 1) * BlockLen + 3].text]

CallsOfTop(t) == SelectSeq(calls, LAMBDA c : c.top = t)
CallsBy(id) == SelectSeq(calls, LAMBDA c : c.caller = id)
TopCalls == SelectSeq(calls, LAMBDA c : c.depth = 0)

\* C3: for a stack with events, the reason written to the report is "Stack
\* launch was successful" when the first event returned by the provider has
\* status CREATE_COMPLETE; otherwise that event's status reason when it carries
\* one, and "Unknown" when it carries none.
C3_OutcomeReason ==
    \A n \in 1..Len(calls) :
        Reported(calls[n]) =>
            LET first == calls[n].raw[1]
                written == BlockOf(calls[n])[5].text.fill
            IN  written =
                    IF first.ResourceStatus = "CREATE_COMPLETE"
                        THEN "Stack launch was successful"
                    ELSE IF "ResourceStatusReason" \in DOMAIN first
                        THEN first.ResourceStatusReason
                    ELSE "Unknown"

\* The step in which write_logs is called and fetches an empty list of events.
EmptyCallStep ==
    /\ Len(calls') = Len(calls) + 1
    /\ calls'[Len(calls')].raw = <<>>
    /\ raised' = NoError

\* C4: a write_logs call whose fetched event list is empty logs the error,
\* leaves every file as it was (none created, none appended to), queries no
\* resources, calls nothing and returns to its caller; no later call is made by it.
C4_EmptyEvents ==
    /\ [][EmptyCallStep =>
            /\ files' = files
            /\ queries' = queries
            /\ Len(frames') = Len(frames)
            /\ Len(log') > Len(log)
            /\ log'[Len(log')] = NoEventsRecord
            /\ \A j \in (Len(log) + 1)..Len(log') : log'[j].what # "outcome"]_vars
    /\ [](\A n \in 1..Len(calls) :
            calls[n].caller # 0 => Reported(calls[calls[n].caller]))

C4_Witness ==
    /\ pc = "done"
    /\ \E n \in 1..Len(calls) :
          /\ calls[n].raw = <<>>
          /\ calls[n].depth > 0
          /\ calls[n].before > 0
          /\ \E m \in 1..Len(calls) : m > n /\ calls[m].top = calls[n].top

\* The nested-stack entries among the first n entries of a listing, as the
\* arguments of the calls they ask for.
NestedCalls(resources, n, logpath) ==
    LET nested == SelectSeq(SubSeq(resources, 1, n),
                    LAMBDA r : r.resourceType = "AWS::CloudFormation::Stack")
    IN  [j \in 1..Len(nested) |-> <<nested[j].physicalId, logpath>>]

\* C5: the recursive calls an activation has made are, in listing order, one
\* per nested-stack entry among the entries its loop has passed, each with the
\* entry's physical id and the activation's own log path, and none for another
\* entry: when the loop is over, one per nested-stack entry of the listing.
C5_RecursePerNestedStack ==
    \A d \in 1..Len(frames) :
        LET f == frames[d]
            made == CallsBy(f.call)
        IN  /\ f.i <= Len(f.resources) + 1
            /\ [j \in 1..Len(made) |-> <<made[j].stack_id, made[j].logpath>>]
                 = NestedCalls(f.resources, f.i - 1, f.logpath)

C5_Witness ==
    \E d \in 1..Len(frames) :
        /\ raised = NoError
        /\ frames[d].i > Len(frames[d].resources)
        /\ Len(frames[d].resources) = 3
        /\ Len(CallsBy(frames[d].call)) = 2

\* C6: within one top-level write_logs invocation no stack is processed twice,
\* and every stack with events has exactly one block in the file.
C6_NoRevisit ==
    \A m \in 1..Len(calls) : \A n \in 1..Len(calls) :
        (m < n /\ calls[m].top = calls[n].top) =>
            parse_stack_info(calls[m].stack_id) # parse_stack_info(calls[n].stack_id)

RECURSIVE PreOrder(_)
\* The stacks of the subtree of n in depth-first pre-order, children in listing
\* order, a stack without events and its subtree left out.
PreOrder(n) ==
    IF get_cfn_stack_events(AnswersFor(n), n).stack_events = <<>> THEN <<>>
    ELSE LET nested == ChildrenFrom(n, 2, "")
         IN  <<n>> \o Concat([j \in 1..Len(nested) |->
                                PreOrder(nested[j].physicalId.stack_name)])

\* C7: when a top-level write_logs call has returned, the blocks it appended
\* are those of the nested-stack tree in depth-first pre-order.
C7_PreOrderBlocks ==
    (k > 0 /\ frames = <<>> /\ raised = NoError) =>
        LET c == CallsOfTop(k)[1]
            lines == IF c.logpath \in DOMAIN files THEN files[c.logpath] ELSE <<>>
            added == SubSeq(lines, c.before + 1, Len(lines))
        IN  BlockNames(added) = PreOrder(parse_stack_info(c.stack_id).stack_name)

\* The part of C8 that holds as stated: write_logs is called once per (test,
\* stack) pair, in iteration order, with the pair's stack id and the path
\* {logpath}/{stack_name}-{region}-cfnlogs.txt, each call only after the whole
\* walk of the one before has returned; after a normal end, for every pair.
C8_Driver ==
    /\ Len(TopCalls) = k
    /\ k <= Len(Pairs)
    /\ pc = "done" => k = Len(Pairs)
    /\ \A j \in 1..Len(TopCalls) :
          LET c == TopCalls[j]
              info == parse_stack_info(Pairs[j].StackId)
          IN  /\ c.top = j /\ c.caller = 0
              /\ c.stack_id = Pairs[j].StackId
              /\ c.logpath = <<LogDir, "/", info.stack_name, "-", info.region,
                               "-", "cfnlogs", ".txt">>
    /\ \A n \in 1..Len(calls) :
          /\ n > 1 => calls[n - 1].top <= calls[n].top
          /\ calls[n].logpath = TopCalls[calls[n].top].logpath
    /\ \A d \in 1..Len(frames) : frames[d].top = k

\* C8 as stated: besides, two distinct top-level stacks of a batch never have
\* their reports in the same file.
C8_DistinctStacksDistinctFiles ==
    /\ C8_Driver
    /\ \A m \in 1..Len(TopCalls) : \A n \in 1..Len(TopCalls) :
          (Reported(TopCalls[m]) /\ Reported(TopCalls[n])
           /\ TopCalls[m].stack_id # TopCalls[n].stack_id)
              => TopCalls[m].logpath # TopCalls[n].logpath

\* C8, amended: besides, two top-level stacks whose stack name or region differ
\* never have their reports in the same file; two stack ids with the same name
\* and region share one file.
C8_DistinctNamesDistinctFiles ==
    /\ C8_Driver
    /\ \A m \in 1..Len(TopCalls) : \A n \in 1..Len(TopCalls) :
          (parse_stack_info(TopCalls[m].stack_id) # parse_stack_info(TopCalls[n].stack_id))
              <=> TopCalls[m].logpath # TopCalls[n].logpath

C8_Witness ==
    /\ pc = "done" /\ k = 2
    /\ Reported(TopCalls[1]) /\ Reported(TopCalls[2])
    /\ TopCalls[1].logpath # TopCalls[2].logpath
    /\ Len(calls) > 2
    /\ Cardinality(DOMAIN files) = 2

\* C9: every stack with events gets exactly one console outcome record, at PASS
\* severity if and only if its first event has status CREATE_COMPLETE, and at
\* ERROR severity otherwise, whatever the status reason.
C9_OutcomeSeverity ==
    LET outcomes == SelectSeq(log, LAMBDA r : r.what = "outcome")
        reported == SelectSeq(calls, Reported)
    IN  /\ Len(outcomes) = Len(reported)
        /\ \A j \in 1..Len(outcomes) :
              IF reported[j].raw[1].ResourceStatus = "CREATE_COMPLETE"
                  THEN outcomes[j].level = "INFO" /\ outcomes[j].nametag = "PASS"
              ELSE outcomes[j].level = "ERROR"

\* C10: once get_resources has failed for a stack S, or a recursive call has
\* failed, the exception is never handled: it leaves one activation after the
\* other and then createcfnlogs; every block written before, the complete
\* block of S included, stays in the file, and nothing more is written, called
\* or queried.
C10_Propagation ==
    /\ [][raised # NoError =>
            /\ raised' = raised
            /\ files' = files /\ calls' = calls /\ queries' = queries /\ log' = log
            /\ k' = k
            /\ IF frames # <<>>
                  THEN frames' = SubSeq(frames, 1, Len(frames) - 1) /\ pc' = pc
               ELSE frames' = frames /\ pc' = "raised"]_vars
    /\ [][\A p \in DOMAIN files :
            p \in DOMAIN files' /\ IsPrefix(files[p], files'[p])]_vars
    /\ [](pc = "raised" => raised # NoError /\ frames = <<>>)
    /\ [](raised.kind = "ResourceError" =>
            LET c == calls[raised.call]
            IN  /\ c.id = Len(calls)
                /\ Len(files[c.logpath]) = c.before + BlockLen
                /\ BlockOf(c) = ReportBlock(parse_stack_info(c.stack_id).stack_name,
                                  parse_stack_info(c.stack_id).region,
                                  BlockOf(c)[5].text.fill,
                                  get_cfnlogs(AnswersFor(parse_stack_info(c.stack_id).stack_name),
                                              0, "").events))

C10_Witness ==
    /\ pc = "raised" /\ raised.kind = "ResourceError"
    /\ calls[raised.call].depth > 0
    /\ k < Len(Pairs)
    /\ calls[raised.call].before > 0
    /\ Len(CallsBy(calls[raised.call].caller))
         < Len(NestedCalls(get_resources(1, ""), Len(get_resources(1, "")), ""))

====
